---- MODULE Spec2Model ----
(***************************************************************************)
(* A model of the streaming chat route (src/app/api/gen-chat/route.ts):    *)
(* the system prompt selector, the POST handler's checks, the model call, *)
(* the step and finish callbacks and the transport adapter.               *)
(***************************************************************************)
EXTENDS Integers, Sequences, FiniteSets, TLC

VARIABLES
    \* ---- the prompt selector applied on its own ----
    args,            \* the arguments of one call of the selector
    subject,         \* what detectSubject returned for args.messages
    prompt,          \* what getSystemPrompt returned for args
    \* ---- one POST request ----
    pc,              \* position of the handler
    session,         \* what supabase.auth.getUser() returns
    body,            \* what request.json() returns
    thread,          \* what the chat_threads lookup returned
    response,        \* the Response the handler returned (status 0: none yet)
    thrown,          \* the value in flight to a catch block
    modelCall,       \* the arguments streamText was invoked with
    aborted,         \* controller.abort() was called
    streamFinished,  \* the handler's streamFinished flag
    streamError,     \* the handler's streamError record
    outbound,        \* events enqueued on the readable side of transformStream
    outboundState,   \* "none" | "open" | "closed" | "errored"
    consumed,        \* events transform() has been called with, in order
    stepsDone,       \* number of onStepFinish invocations
    finishCalls,     \* number of onFinish invocations
    chat_messages,   \* rows inserted into chat_messages
    tool_outputs,    \* rows inserted into tool_outputs
    insertAttempts,  \* insert calls issued against either table
    usageLogged,     \* calls of logTokenUsage
    caughtBy,        \* the catch block that handled thrown: "none" | "inner" | "outer"
    logged,          \* the console.error / console.warn lines written by the stream
    callbackRaised,  \* a callback or flush() let an exception escape
    upstream,        \* what the model stream and the stores will do
    \* ---- the lesson content generator page ----
    page,            \* which of the two versions of the page is running
    formFilled,      \* topic, subject, grade, board and contentType are all set
    isLoading,       \* the page's isLoading state
    isImageLoading,  \* the newer page's isImageLoading state
    textContent,     \* the run whose text and title are displayed (0: none)
    runs,            \* the generateContent runs started, in order
    history,         \* number of lessons in the history state
    currentPage,     \* the pager's currentPage state
    historyFetches,  \* fetchHistory calls whose response is outstanding
    \* ---- the student details page ----
    loadPc,          \* position of loadData
    loading,         \* the page's loading state
    loadError,       \* the page's error state is set
    sectionLoading,  \* the five section loading flags
    sectionError,    \* the five section error states are set
    student,         \* the student state: whether set, and the sections it holds
    failed           \* the fetch whose failure ended loadData ("none": no failure)

promptVars == <<args, subject, prompt>>

requestVars == <<pc, session, body, thread, response, thrown, modelCall, aborted,
                 streamFinished, streamError, outbound, outboundState,
                 consumed, stepsDone, finishCalls, chat_messages, tool_outputs,
                 insertAttempts, usageLogged, caughtBy, logged, callbackRaised,
                 upstream>>

lessonVars == <<page, formFilled, isLoading, isImageLoading, textContent, runs, history,
                currentPage, historyFetches>>

studentVars == <<loadPc, loading, loadError, sectionLoading, sectionError, student,
                 failed>>

pageVars == <<lessonVars, studentVars>>

vars == <<args, subject, prompt, pc, session, body, thread, response, thrown, modelCall,
          aborted, streamFinished, streamError, outbound,
          outboundState, consumed, stepsDone, finishCalls, chat_messages,
          tool_outputs, insertAttempts, usageLogged, caughtBy, logged,
          callbackRaised, upstream, page, formFilled, isLoading, isImageLoading,
          textContent, runs, history, currentPage, historyFetches, loadPc,
          loading, loadError, sectionLoading, sectionError, student, failed>>

----------------------------------------------------------------------------
(* Bounds *)

\* longest message history handed to the prompt selector
MaxMessages == 2

----------------------------------------------------------------------------
(* JavaScript values *)

Undefined == "undefined"

\* The exception an operation can end with instead of a value.
TypeErrorThrown == "TypeError"

\* A string is a sequence of whitespace-separated words; a message's content is a
\* string or is missing (a message carrying tool calls only, or content parts).
StringContent(words) == [isString |-> TRUE, words |-> words]

NoContent == [isString |-> FALSE, words |-> <<>>]

Texts ==
    { <<>>,
      <<"explain", "fractions">>,
      <<"Math", "homework">>,
      <<"science", "and", "math">>,
      <<"an", "Experiment">>,
      <<"writing", "a", "CALCULATION">>,
      <<"ENGLISH", "writing">>,
      <<"mathematics">> }

Contents == {StringContent(t) : t \in Texts} \cup {NoContent}

Roles == {"user", "assistant"}

ChatMessage == [role : Roles, content : Contents]

Histories(n) == UNION {[1..k -> ChatMessage] : k \in 0..n}

\* String.prototype.toLowerCase, word by word.
LowerWord(w) ==
    CASE w = "Math" -> "math"
      [] w = "Experiment" -> "experiment"
      [] w = "CALCULATION" -> "calculation"
      [] w = "ENGLISH" -> "english"
      [] OTHER -> w

toLowerCase(words) == [i \in 1..Len(words) |-> LowerWord(words[i])]

\* kw occurs inside the word w.
WordIncludes(w, kw) == w = kw \/ (w = "mathematics" /\ kw = "math")

\* String.prototype.includes for a keyword.
includes(words, kw) == \E i \in 1..Len(words) : WordIncludes(words[i], kw)

----------------------------------------------------------------------------
(* detectSubject *)

Subjects == {"science", "math", "english", "generic"}

\* messages.slice().reverse().find(m => m.role === 'user'): index of the last
\* user message, 0 when there is none.
LastUserIndex(messages) ==
    LET users == {i \in 1..Len(messages) : messages[i].role = "user"}
    IN  IF users = {} THEN 0 ELSE CHOOSE i \in users : \A j \in users : j <= i

\* A plausible slip: find() without the reverse(), i.e. the first user message.
FirstUserIndex(messages) ==
    LET users == {i \in 1..Len(messages) : messages[i].role = "user"}
    IN  IF users = {} THEN 0 ELSE CHOOSE i \in users : \A j \in users : i <= j

SubjectOfText(text) ==
    IF includes(text, "math") \/ includes(text, "calculation") THEN "math"
    ELSE IF includes(text, "science") \/ includes(text, "experiment") THEN "science"
    ELSE IF includes(text, "english") \/ includes(text, "writing") THEN "english"
    ELSE "generic"

\* A plausible slip: the first user message instead of the last.
detectSubjectFirstUser(messages) ==
    LET i == FirstUserIndex(messages)
    IN  IF i = 0 THEN "generic"
        ELSE IF ~messages[i].content.isString THEN TypeErrorThrown
        ELSE SubjectOfText(toLowerCase(messages[i].content.words))

\* Returns a subject, or throws a TypeError when the last user message has no
\* string content (?. guards the find() result only, not .content).
detectSubject(messages) ==
    LET i == LastUserIndex(messages)
    IN  IF i = 0 THEN "generic"
        ELSE IF ~messages[i].content.isString THEN TypeErrorThrown
        ELSE SubjectOfText(toLowerCase(messages[i].content.words))

----------------------------------------------------------------------------
(* getSystemPrompt *)

Languages == {"english", "hindi"}

\* Values the request's language field may carry besides the two supported ones.
LanguageValues == Languages \cup {"french"}

UserRoles == {"Teacher", "Student", Undefined}

\* A call of the selector returns a string (the sequence of its parts) or throws.
Returned(parts) == [called |-> TRUE, threw |-> FALSE, parts |-> parts]

ThrewTypeError == [called |-> TRUE, threw |-> TRUE, parts |-> <<>>]

\* The imported templates, each a non-empty string.
TEACHER_BUDDY_PROMPT == <<"TEACHER_BUDDY_PROMPT">>

TEACHING_MODE_PROMPT == <<"TEACHING_MODE_PROMPT">>

TEACHING_MODE_PROMPT_HINDI == <<"TEACHING_MODE_PROMPT_HINDI">>

\* The 4x2 table; prompts[language] is undefined for any other language.
prompts ==
    [l \in Languages |->
        [s \in Subjects |->
            IF l = "english"
            THEN CASE s = "science" -> "SCIENCE_TEACHER_PROMPT"
                   [] s = "math" -> "MATH_TEACHER_PROMPT"
                   [] s = "english" -> "ENGLISH_TEACHER_PROMPT"
                   [] OTHER -> "GENERIC_TEACHER_PROMPT"
            ELSE CASE s = "science" -> "SCIENCE_TEACHER_PROMPT_HINDI"
                   [] s = "math" -> "MATH_TEACHER_PROMPT_HINDI"
                   [] s = "english" -> "ENGLISH_TEACHER_PROMPT_HINDI"
                   [] OTHER -> "GENERIC_TEACHER_PROMPT_HINDI"]]

\* Lines 113-141: the template literal, the base prompt followed by the tools
\* paragraph of the language.
StudentPrompt(messages, language) ==
    LET s == detectSubject(messages)
    IN  IF s = TypeErrorThrown THEN ThrewTypeError
        ELSE IF language \notin DOMAIN prompts THEN ThrewTypeError
        ELSE IF language = "english"
             THEN Returned(<<prompts[language][s], "tools paragraph (english)">>)
             ELSE Returned(<<prompts[language][s], "tools paragraph (hindi)">>)

TeachingPrompt(language) ==
    IF language = "english" THEN TEACHING_MODE_PROMPT ELSE TEACHING_MODE_PROMPT_HINDI

getSystemPrompt(messages, userRole, language, teachingMode) ==
    IF userRole = "Teacher" THEN Returned(TEACHER_BUDDY_PROMPT)
    ELSE IF teachingMode THEN Returned(TeachingPrompt(language))
    ELSE StudentPrompt(messages, language)

----------------------------------------------------------------------------
(* The prompt selector applied to arbitrary arguments *)

SelectorArgs ==
    [messages : Histories(MaxMessages), userRole : UserRoles,
     language : LanguageValues, teachingMode : BOOLEAN]

NotCalled == "not called"

PromptNotCalled == [called |-> FALSE, threw |-> FALSE, parts |-> <<>>]

DetectSubjectCall ==
    /\ pc = "selector"
    /\ subject = NotCalled
    /\ subject' = detectSubject(args.messages)
    /\ UNCHANGED <<args, prompt, requestVars, pageVars>>

GetSystemPromptCall ==
    /\ pc = "selector"
    /\ ~prompt.called
    /\ prompt' = getSystemPrompt(args.messages, args.userRole, args.language,
                                 args.teachingMode)
    /\ UNCHANGED <<args, subject, requestVars, pageVars>>

----------------------------------------------------------------------------
(* The request and the collaborators' state *)

CallerId == "user-1"

OtherUserId == "user-2"

\* createClient() and supabase.auth.getUser(): a user, or no user with or
\* without an error, or an exception (the cookie store or the network failing).
Sessions ==
    {[throws |-> FALSE, hasUser |-> TRUE, id |-> CallerId, role |-> r,
      hasError |-> FALSE, message |-> ""] : r \in UserRoles}
    \cup {[throws |-> FALSE, hasUser |-> FALSE, id |-> "", role |-> Undefined,
           hasError |-> FALSE, message |-> ""]}
    \cup {[throws |-> FALSE, hasUser |-> FALSE, id |-> "", role |-> Undefined,
           hasError |-> TRUE, message |-> m] : m \in {"", "Auth session missing!"}}
    \cup {[throws |-> TRUE, hasUser |-> FALSE, id |-> "", role |-> Undefined,
           hasError |-> FALSE, message |-> ""]}

\* The chat_threads table: thread id -> user_id.
chat_threads == [t \in {"thread-mine", "thread-other"} |->
                    IF t = "thread-mine" THEN CallerId ELSE OtherUserId]

\* Values of the body's id field: absent, the empty string, or a thread id.
ThreadIds == {Undefined, "", "thread-mine", "thread-other", "thread-missing"}

\* JavaScript truthiness of the id field (if (threadId)).
Truthy(id) == id \notin {Undefined, ""}

\* The body's messages field: an array of messages, or something else.
MessageArray(items) == [isArray |-> TRUE, items |-> items]

NotAnArray == [isArray |-> FALSE, items |-> <<>>]

\* The body with the destructuring defaults applied.
language(b) == IF b.language = Undefined THEN "english" ELSE b.language

\* A thrown value: its class ("string": a thrown string, not an Error), its
\* message and the properties the catch blocks read (statusCode 0: undefined).
ErrorValue(kind, message) ==
    [kind |-> kind, message |-> message, statusCode |-> 0, isRetryable |-> FALSE,
     url |-> "", responseBody |-> "", messageId |-> "", finishReason |-> "",
     code |-> ""]

NoThrow == ErrorValue("none", "")

\* error instanceof Error
instanceofError(e) == e.kind \in {"Error", "TypeError", "SyntaxError", "APICallError"}

\* Messages carrying the finish-error marker: with a JSON payload, with a
\* truncated payload, and without any '{'.
MarkerWithPayload == "STREAM_FINISH_ERROR: {payload}"

MarkerWithBrokenPayload == "STREAM_FINISH_ERROR: {payl"

MarkerAlone == "STREAM_FINISH_ERROR"

\* message.includes('STREAM_FINISH_ERROR')
includesMarker(message) ==
    message \in {MarkerWithPayload, MarkerWithBrokenPayload, MarkerAlone}

\* message.indexOf('{') >= 0
hasJsonStart(message) == message \in {MarkerWithPayload, MarkerWithBrokenPayload}

\* JSON.parse(message.substring(jsonStartIndex)) does not throw
jsonParses(message) == message = MarkerWithPayload

\* The fields of a JSON answer ("" or 0 or "absent": the field is not set), and
\* whether the Response carries the stream instead.
NoResponse ==
    [status |-> 0, error |-> "", code |-> "", details |-> "", message |-> "",
     threadUserId |-> "", currentUserId |-> "", recoverable |-> "absent",
     statusCode |-> 0, url |-> "", isRetryable |-> "absent",
     responseBody |-> "", finishReason |-> "", messageId |-> "",
     stream |-> FALSE]

\* A boolean as a JSON field.
JsonBool(b) == IF b THEN "true" ELSE "false"

\* Response.json(body, {status})
Json(status, error, code, details) ==
    [NoResponse EXCEPT !.status = status, !.error = error, !.code = code,
                       !.details = details]

NoModelCall ==
    [called |-> FALSE, system |-> <<>>, temperature |-> 0, maxTokens |-> 0,
     messages |-> <<>>]

\* A model stream that is never started.
NoUpstream ==
    [chunks |-> <<>>, steps |-> <<>>,
     finish |-> [finishReason |-> "stop", hasUsage |-> FALSE, logOutcome |-> ""],
     terminateThrows |-> FALSE]

NotFetched == [fetched |-> FALSE, error |-> FALSE, user_id |-> ""]

IdleRequest ==
    /\ thread = NotFetched
    /\ response = NoResponse
    /\ thrown = NoThrow
    /\ modelCall = NoModelCall
    /\ aborted = FALSE
    /\ streamFinished = FALSE
    /\ streamError = FALSE
    /\ outbound = <<>>
    /\ outboundState = "none"
    /\ consumed = <<>>
    /\ stepsDone = 0
    /\ finishCalls = 0
    /\ chat_messages = <<>>
    /\ tool_outputs = <<>>
    /\ insertAttempts = 0
    /\ usageLogged = 0
    /\ caughtBy = "none"
    /\ logged = {}
    /\ callbackRaised = FALSE

IdleSelector ==
    /\ args = [messages |-> <<>>, userRole |-> Undefined, language |-> "english",
               teachingMode |-> FALSE]
    /\ subject = NotCalled
    /\ prompt = PromptNotCalled

(* The lesson content generator page before it is mounted, and the student
   details page before it is mounted. *)
Sections == {"chatThreads", "assessments", "studyPlans", "lessonContents",
             "lessonPlans"}

NoStudent == [set |-> FALSE, sections |-> [s \in Sections |-> "unset"],
              assigned |-> FALSE]

IdleLesson ==
    /\ page = "none"
    /\ formFilled = FALSE
    /\ isLoading = FALSE
    /\ isImageLoading = FALSE
    /\ textContent = 0
    /\ runs = <<>>
    /\ history = 0
    /\ currentPage = 1
    /\ historyFetches = 0

IdleStudent ==
    /\ loadPc = "unmounted"
    /\ loading = TRUE
    /\ loadError = FALSE
    /\ sectionLoading = [s \in Sections |-> TRUE]
    /\ sectionError = [s \in Sections |-> FALSE]
    /\ student = NoStudent
    /\ failed = "none"

IdleRoute ==
    /\ IdleSelector
    /\ pc = "idle"
    /\ session = [hasUser |-> FALSE, id |-> Undefined, role |-> Undefined]
    /\ body = [malformed |-> FALSE, messages |-> NotAnArray, id |-> Undefined,
               language |-> Undefined, teachingMode |-> FALSE]
    /\ IdleRequest
    /\ upstream = NoUpstream

InitPrompt ==
    /\ IdleLesson
    /\ IdleStudent
    /\ args \in SelectorArgs
    /\ subject = NotCalled
    /\ prompt = PromptNotCalled
    /\ pc = "selector"
    /\ session \in {s \in Sessions : s.hasUser /\ s.role = Undefined}
    /\ body = [malformed |-> FALSE, messages |-> NotAnArray, id |-> Undefined,
               language |-> Undefined, teachingMode |-> FALSE]
    /\ IdleRequest
    /\ upstream = NoUpstream

----------------------------------------------------------------------------
(* POST: the checks at the start of the handler *)

\* A plausible slip: the test for a missing user dropped.
UnauthenticatedOnErrorOnly(s) == s.hasError

\* Line 189: error || !user
Unauthenticated(s) == s.hasError \/ ~s.hasUser

\* Lines 185-186: what createClient() or auth.getUser() may throw: a network
\* error, or a promise rejected without a reason (the thrown value is then
\* undefined, which has no properties).
LookupErrors ==
    { [ErrorValue("Error", "read ECONNRESET") EXCEPT !.code = "ECONNRESET"],
      ErrorValue("undefined", "") }

\* Lines 186-191: the session lookup and the 401 answer.
GetUser ==
    /\ pc = "getUser"
    /\ IF session.throws
       THEN /\ \E e \in LookupErrors : thrown' = e
            /\ pc' = "outerCatch"
            /\ UNCHANGED response
       ELSE IF Unauthenticated(session)
       THEN /\ response' = Json(401,
                                IF session.hasError /\ session.message # ""
                                THEN session.message ELSE "User not found",
                                "", "")
            /\ pc' = "returned"
            /\ UNCHANGED thrown
       ELSE /\ pc' = "parseBody"
            /\ UNCHANGED <<response, thrown>>
    /\ UNCHANGED <<promptVars, pageVars, caughtBy, logged, callbackRaised, upstream,
                   thread, session, body, modelCall, aborted,
                   streamFinished, streamError, outbound, outboundState, consumed,
                   stepsDone, finishCalls, chat_messages, tool_outputs,
                   insertAttempts, usageLogged>>

\* Line 196: await request.json(), which throws a SyntaxError on a body that is
\* not JSON.
ParseBody ==
    /\ pc = "parseBody"
    /\ IF body.malformed
       THEN /\ thrown' = ErrorValue("SyntaxError", "Unexpected token")
            /\ pc' = "outerCatch"
       ELSE /\ pc' = "verifyThread"
            /\ UNCHANGED thrown
    /\ UNCHANGED <<promptVars, pageVars, caughtBy, logged, callbackRaised, upstream,
                   thread, session, body, response, modelCall, aborted,
                   streamFinished, streamError, outbound, outboundState, consumed,
                   stepsDone, finishCalls, chat_messages, tool_outputs,
                   insertAttempts, usageLogged>>

\* A plausible slip: the 403 answer built but not returned, so that the handler
\* falls through to the safety check.
AfterForbiddenFallsThrough == "validate"

\* Lines 219-225: the handler's position after the 403 answer (return).
AfterForbidden == "returned"

\* A plausible slip: the ownership test dropped.
ThreadForbiddenNever(threadUserId, userId) == FALSE

\* Line 218: thread?.user_id !== user.id
ThreadForbidden(threadUserId, userId) == threadUserId # userId

\* Lines 219-225: the 403 answer; its details carry the thread's owner and the
\* caller.
forbiddenResponse(threadUserId, currentUserId) ==
    [Json(403, "Unauthorized thread access", "", "")
        EXCEPT !.threadUserId = threadUserId, !.currentUserId = currentUserId]

\* Lines 203-227: the thread lookup (.single() reports an error when no row
\* matches, or when the query fails) and the ownership test.
VerifyThread ==
    /\ pc = "verifyThread"
    /\ \E queryFails \in BOOLEAN :
         LET threadId == body.id
             found == ~queryFails /\ threadId \in DOMAIN chat_threads
             row == IF found
                    THEN [fetched |-> TRUE, error |-> FALSE,
                          user_id |-> chat_threads[threadId]]
                    ELSE [fetched |-> TRUE, error |-> TRUE, user_id |-> ""]
         IN  IF ~Truthy(threadId)
             THEN /\ pc' = "validate"
                  /\ UNCHANGED <<response, thread>>
             ELSE /\ thread' = row
                  /\ IF row.error
                     THEN /\ response' = Json(404, "Thread not found", "", "")
                          /\ pc' = "returned"
                     ELSE IF ThreadForbidden(row.user_id, session.id)
                     THEN /\ response' = forbiddenResponse(row.user_id,
                                                            session.id)
                          /\ pc' = AfterForbidden
                     ELSE /\ pc' = "validate"
                          /\ UNCHANGED response
    /\ UNCHANGED <<promptVars, pageVars, caughtBy, logged, callbackRaised, upstream,
                   session, body, thrown, modelCall, aborted,
                   streamFinished, streamError, outbound, outboundState, consumed,
                   stepsDone, finishCalls, chat_messages, tool_outputs,
                   insertAttempts, usageLogged>>

\* A plausible slip: the length test dropped from the safety check.
InvalidMessagesArrayOnly(messages) == ~messages.isArray

\* Line 230: !Array.isArray(messages) || messages.length === 0
InvalidMessages(messages) == ~messages.isArray \/ Len(messages.items) = 0

\* Lines 229-232: the safety check for messages.
ValidateMessages ==
    /\ pc = "validate"
    /\ IF InvalidMessages(body.messages)
       THEN /\ response' = Json(400, "Invalid messages array", "", "")
            /\ pc' = "returned"
       ELSE /\ pc' = "streamText"
            /\ UNCHANGED response
    /\ UNCHANGED <<promptVars, pageVars, caughtBy, logged, callbackRaised, upstream,
                   thread, session, body, thrown, modelCall, aborted,
                   streamFinished, streamError, outbound, outboundState, consumed,
                   stepsDone, finishCalls, chat_messages, tool_outputs,
                   insertAttempts, usageLogged>>

----------------------------------------------------------------------------
(* POST: the model call *)

\* Lines 235-241: the clean copy keeps role and content (and the optional name,
\* toolCalls and toolCallId, which the modelled messages do not carry).
cleanMessages(messages) ==
    [i \in 1..Len(messages) |->
        [role |-> messages[i].role, content |-> messages[i].content]]

\* A plausible slip: the teaching-mode flag handed on to getSystemPrompt instead
\* of being tested at the call site.
systemViaSelector(messages, userRole, lang, teachingMode) ==
    getSystemPrompt(cleanMessages(messages), userRole, lang, teachingMode)

\* Lines 249-251: the system argument of streamText. getSystemPrompt is called
\* without its teachingMode argument, which therefore takes its default, false.
system(messages, userRole, lang, teachingMode) ==
    IF teachingMode
    THEN Returned(TeachingPrompt(lang))
    ELSE getSystemPrompt(cleanMessages(messages), userRole, lang, FALSE)

\* Sampling temperatures in tenths (0.3 and 0.5) and output budgets in tokens.
TeachingTemperature == 3

NormalTemperature == 5

TeachingMaxTokens == 1500

NormalMaxTokens == 500

\* A plausible slip: the two temperatures swapped.
temperatureSwapped(teachingMode) ==
    IF teachingMode THEN NormalTemperature ELSE TeachingTemperature

\* Line 256
temperature(teachingMode) ==
    IF teachingMode THEN TeachingTemperature ELSE NormalTemperature

\* Line 257
maxTokens(teachingMode) ==
    IF teachingMode THEN TeachingMaxTokens ELSE NormalMaxTokens

\* What streamText itself can throw when invoked.
StreamTextErrors ==
    { [ErrorValue("APICallError", "Unauthorized")
          EXCEPT !.statusCode = 401,
                 !.url = "https://api.anthropic.com/v1/messages",
                 !.responseBody = "authentication_error"],
      [ErrorValue("Error", "Invalid message") EXCEPT !.messageId = "msg-1"],
      [ErrorValue("Error", "Model failed") EXCEPT !.finishReason = "error"] }

\* Lines 247-336: the arguments are evaluated, then streamText is invoked; an
\* exception while evaluating the system argument leaves streamText uncalled
\* and reaches the outer catch, as does an exception of streamText itself.
StreamText ==
    /\ pc = "streamText"
    /\ LET sys == system(body.messages.items, session.role, language(body),
                         body.teachingMode)
       IN  IF sys.threw
           THEN /\ thrown' = ErrorValue("TypeError",
                                        "Cannot read properties of undefined")
                /\ pc' = "outerCatch"
                /\ UNCHANGED modelCall
           ELSE /\ modelCall' =
                      [called |-> TRUE, system |-> sys.parts,
                       temperature |-> temperature(body.teachingMode),
                       maxTokens |-> maxTokens(body.teachingMode),
                       messages |-> cleanMessages(body.messages.items)]
                /\ \/ /\ pc' = "toResponse"
                      /\ UNCHANGED thrown
                   \/ /\ \E e \in StreamTextErrors : thrown' = e
                      /\ pc' = "outerCatch"
    /\ UNCHANGED <<promptVars, pageVars, caughtBy, logged, callbackRaised, upstream,
                   thread, session, body, response, aborted, streamFinished,
                   streamError, outbound, outboundState, consumed, stepsDone,
                   finishCalls, chat_messages, tool_outputs, insertAttempts,
                   usageLogged>>

\* What toDataStreamResponse(), pipeThrough() or new Response() can throw: the
\* handler's own Error for a missing body, and whatever the library raises.
StreamSetupErrors ==
    { ErrorValue("Error", "No response stream available"),
      ErrorValue("TypeError", "Cannot read properties of undefined"),
      ErrorValue("TypeError", MarkerWithPayload),
      ErrorValue("Error", MarkerWithPayload),
      ErrorValue("Error", MarkerWithBrokenPayload),
      ErrorValue("Error", MarkerAlone),
      [ErrorValue("APICallError", "Too Many Requests")
          EXCEPT !.statusCode = 429, !.isRetryable = TRUE,
                 !.url = "https://api.anthropic.com/v1/messages",
                 !.responseBody = "rate_limit_error"],
      [ErrorValue("APICallError", "fetch failed")
          EXCEPT !.url = "https://api.anthropic.com/v1/messages"],
      ErrorValue("string", "stream setup failed") }

\* Lines 338-394: the data stream response piped through transformStream.
ToDataStreamResponse ==
    /\ pc = "toResponse"
    /\ \/ /\ response' = [NoResponse EXCEPT !.status = 200, !.stream = TRUE]
          /\ outboundState' = "open"
          /\ pc' = "returned"
          /\ UNCHANGED thrown
       \/ /\ \E e \in StreamSetupErrors : thrown' = e
          /\ pc' = "innerCatch"
          /\ UNCHANGED <<response, outboundState>>
    /\ UNCHANGED <<promptVars, pageVars, caughtBy, logged, callbackRaised, upstream,
                   thread, session, body, modelCall, aborted, streamFinished,
                   streamError, outbound, consumed, stepsDone, finishCalls,
                   chat_messages, tool_outputs, insertAttempts, usageLogged>>

\* Lines 89-91
isStreamFinishError(e) == instanceofError(e) /\ includesMarker(e.message)

\* Lines 93-95
isTypeError(e) == e.kind = "TypeError"

\* Lines 97-99
isAPICallError(e) == e.kind = "APICallError"

\* A plausible slip: the API client's status code dropped from the answer.
apiErrorStatusAlways500(e) == 500

\* Lines 459 and 512: statusCode || 500 (0 stands for an absent status code).
apiErrorStatus(e) == IF e.statusCode # 0 THEN e.statusCode ELSE 500

\* Lines 412-479: the answer of the stream failure boundary for the thrown
\* value e, given whether a finish error was recorded. A marker message without
\* a '{' leaves the first branch without an answer and is classified below.
streamErrorResponse(e, recorded) ==
    IF isStreamFinishError(e) /\ hasJsonStart(e.message)
    THEN IF jsonParses(e.message)
         THEN [Json(500, "AI Stream Error", "STREAM_FINISH_ERROR",
                    "The AI stream ended unexpectedly")
                  EXCEPT !.finishReason = "error", !.recoverable = "true"]
         ELSE [Json(500, "AI Stream Error", "STREAM_FINISH_ERROR",
                    "The AI stream ended unexpectedly (parsing error)")
                  EXCEPT !.message = e.message, !.recoverable = "true"]
    ELSE IF isTypeError(e)
    THEN [Json(500, "Stream processing error", "STREAM_TYPE_ERROR", e.message)
             EXCEPT !.recoverable = "false"]
    ELSE IF isAPICallError(e)
    THEN [Json(apiErrorStatus(e),
               "AI API error during streaming", "STREAM_AI_ERROR", e.message)
             EXCEPT !.statusCode = e.statusCode,
                    !.recoverable = JsonBool(e.isRetryable)]
    ELSE IF recorded
    THEN [Json(500, "AI Stream Error", "STREAM_REPORTED_ERROR",
               "The AI stream reported an error during processing")
             EXCEPT !.message = "{}", !.recoverable = "true"]
    ELSE [Json(500, "Stream error", "STREAM_ERROR", e.message)
             EXCEPT !.message = "Please try your request again.",
                    !.recoverable = "true"]

\* Lines 395-480: the stream failure boundary; the controller is aborted
\* unless the finish callback has run.
InnerCatch ==
    /\ pc = "innerCatch"
    /\ aborted' = (aborted \/ ~streamFinished)
    /\ response' = streamErrorResponse(thrown, streamError)
    /\ caughtBy' = "inner"
    /\ pc' = "returned"
    /\ UNCHANGED <<promptVars, pageVars, logged, callbackRaised, upstream,
                   thread, session, body, thrown, modelCall, streamFinished,
                   streamError, outbound, outboundState, consumed, stepsDone,
                   finishCalls, chat_messages, tool_outputs, insertAttempts,
                   usageLogged>>

\* Lines 493-553: the answer of the outer failure boundary for the thrown
\* value e when every property read on it is defined (an Error or a string).
outerErrorResponse(e) ==
    IF e.kind = "TypeError"
    THEN Json(400, "Invalid request or parameters", "TYPE_ERROR", e.message)
    ELSE IF isAPICallError(e)
    THEN [Json(apiErrorStatus(e),
               "AI API Call Error", "AI_API_ERROR", e.message)
             EXCEPT !.statusCode = e.statusCode, !.url = e.url,
                    !.isRetryable = JsonBool(e.isRetryable),
                    !.responseBody = e.responseBody]
    ELSE IF e.messageId # ""
    THEN [Json(400, "Message processing error", "MESSAGE_ERROR",
               IF e.message # "" THEN e.message ELSE "Error processing message")
             EXCEPT !.messageId = e.messageId]
    ELSE IF e.finishReason = "error"
    THEN [Json(500, "AI model error", "MODEL_ERROR",
               "The AI model encountered an error during processing")
             EXCEPT !.finishReason = e.finishReason, !.recoverable = "true"]
    ELSE IF e.code = "ECONNRESET"
    THEN [Json(500, "Connection reset", "ECONNRESET",
               "The connection was reset while streaming the response")
             EXCEPT !.recoverable = "true"]
    ELSE Json(500, "Server error", "SERVER_ERROR",
              IF e.kind # "string" /\ e.message # "" THEN e.message
              ELSE "An unknown error occurred")

\* Line 515: err.messageId is read on the caught value whatever it is; on
\* undefined or null the read throws a TypeError inside the catch block.
outerCatchThrows(e) == e.kind \in {"undefined", "null"}

\* Lines 481-554: the outer failure boundary; the controller is aborted. An
\* exception thrown inside the catch block leaves POST: its promise rejects
\* and no Response is returned.
OuterCatch ==
    /\ pc = "outerCatch"
    /\ aborted' = TRUE
    /\ caughtBy' = "outer"
    /\ IF outerCatchThrows(thrown)
       THEN /\ pc' = "rejected"
            /\ UNCHANGED response
       ELSE /\ response' = outerErrorResponse(thrown)
            /\ pc' = "returned"
    /\ UNCHANGED <<promptVars, pageVars, logged, callbackRaised, upstream,
                   thread, session, body, thrown, modelCall, streamFinished,
                   streamError, outbound, outboundState, consumed, stepsDone,
                   finishCalls, chat_messages, tool_outputs, insertAttempts,
                   usageLogged>>

----------------------------------------------------------------------------
(* The stream: callbacks and the transport adapter *)

\* longest sequence of events pushed through transformStream
MaxEvents == 2

\* most steps the model stream completes (maxSteps: 5 caps it in the code)
MaxSteps == 2

\* The outbound stream is read once the handler has returned it.
StreamRuns == pc = "returned" /\ response.stream

\* Lines 183 and 247-336: controller.signal is read into a local that nothing
\* uses; streamText is given no abortSignal, so abort() reaches no listener.
signalPassed == FALSE

\* The model call streamText launched produces steps and its finish event
\* until it ends, a callback fails it, or an abort signal it listens to fires.
\* It was launched when streamText returned: the handler answered with the
\* stream, or the stream failure boundary answered after a later throw.
ModelStreamRuns ==
    /\ pc = "returned"
    /\ modelCall.called
    /\ response.stream \/ caughtBy = "inner"
    /\ ~callbackRaised
    /\ ~(aborted /\ signalPassed)

Chunks ==
    { [type |-> "text", text |-> "Fractions are"],
      [type |-> "tool-call", text |-> "generateImage"],
      [type |-> "error", text |-> "overloaded_error"] }

ApologyText ==
    "I apologize, but I encountered an issue while processing your request."

\* Lines 353-356: the event enqueued in place of an error event.
Apology == [type |-> "text", text |-> ApologyText]

\* A plausible slip: the error event forwarded after the apology.
transformForwardingError(chunk) ==
    IF chunk.type = "error" THEN <<Apology, chunk>> ELSE <<chunk>>

\* A plausible slip: the error event dropped without a replacement.
transformDroppingError(chunk) ==
    IF chunk.type = "error" THEN <<>> ELSE <<chunk>>

\* Lines 347-371: the events transform() enqueues for one chunk. The catch
\* branch needs chunk.type or enqueue() to throw, which no chunk of a response
\* body and no open readable side does.
transform(chunk) ==
    IF chunk.type = "error" THEN <<Apology>> ELSE <<chunk>>

\* transformStream.transform called with the next chunk of the response body.
Transform ==
    /\ StreamRuns
    /\ outboundState = "open"
    /\ Len(consumed) < Len(upstream.chunks)
    /\ LET chunk == upstream.chunks[Len(consumed) + 1]
       IN  /\ consumed' = Append(consumed, chunk)
           /\ outbound' = outbound \o transform(chunk)
    /\ UNCHANGED <<promptVars, pageVars, caughtBy, logged, callbackRaised, upstream,
                   thread, pc, session, body, response, thrown, modelCall,
                   aborted, streamFinished, streamError, outboundState, stepsDone,
                   finishCalls, chat_messages, tool_outputs, insertAttempts,
                   usageLogged>>

\* A plausible slip: terminate() called outside any try block.
FlushCatchesNothing == FALSE

\* Lines 374-378: terminate() is called inside try/catch.
FlushCatches == TRUE

\* Lines 372-379: whether flush() lets the exception of terminate() escape.
flushThrows(terminateThrows) == terminateThrows /\ ~FlushCatches

\* Lines 372-379: flush() once the response body has ended; terminate() closes
\* the readable side, and an exception it raises is caught and logged, after
\* which the stream closes the readable side itself. An exception escaping
\* flush() would error the readable side instead.
Flush ==
    /\ StreamRuns
    /\ outboundState = "open"
    /\ finishCalls > 0
    /\ Len(consumed) = Len(upstream.chunks)
    /\ LET terminateThrows == upstream.terminateThrows
       IN  /\ outboundState' = IF flushThrows(terminateThrows)
                               THEN "errored" ELSE "closed"
           /\ callbackRaised' = (callbackRaised \/ flushThrows(terminateThrows))
           /\ logged' = IF terminateThrows /\ FlushCatches
                        THEN logged \cup {"Error terminating controller:"}
                        ELSE logged
    /\ UNCHANGED <<promptVars, pageVars, caughtBy, upstream,
                   thread, pc, session, body, response, thrown, modelCall,
                   aborted, streamFinished, streamError, outbound, consumed,
                   stepsDone, finishCalls, chat_messages, tool_outputs,
                   insertAttempts, usageLogged>>

ToolCalls ==
    { [toolCallId |-> "call-1", toolName |-> "generateImage", args |-> "a pie"],
      [toolCallId |-> "call-2", toolName |-> "generateQuiz", args |-> "fractions"] }

ToolResults ==
    { [toolCallId |-> "call-1", result |-> "https://img/pie.png"],
      [toolCallId |-> "call-2", result |-> ""] }

\* What one completed step hands to onStepFinish.
Steps ==
    { [text |-> "Let me think.", toolCalls |-> <<>>, toolResults |-> <<>>] }
    \cup
    { [text |-> "Here is a picture.", toolCalls |-> <<c>>, toolResults |-> r] :
        c \in ToolCalls,
        r \in {<<>>} \cup {<<x>> : x \in ToolResults} }
    \cup
    { [text |-> "A picture and a quiz.",
       toolCalls |->
          <<[toolCallId |-> "call-1", toolName |-> "generateImage",
             args |-> "a pie"],
            [toolCallId |-> "call-2", toolName |-> "generateQuiz",
             args |-> "fractions"]>>,
       toolResults |->
          <<[toolCallId |-> "call-1", result |-> "https://img/pie.png"]>>] }

\* An insert resolves without error, resolves with an error, or rejects.
InsertOutcomes == {"ok", "error", "throws"}

\* toolResults?.find(r => r.toolCallId === call.toolCallId)
FindResult(toolResults, call) ==
    LET hits == {i \in 1..Len(toolResults) :
                    toolResults[i].toolCallId = call.toolCallId}
    IN  IF hits = {} THEN 0 ELSE CHOOSE i \in hits : \A j \in hits : i <= j

\* Lines 285-294: result?.result || undefined turns a falsy result into
\* undefined; the state records whether a result was found.
toolCallsWithResults(toolCalls, toolResults) ==
    [i \in 1..Len(toolCalls) |->
        LET k == FindResult(toolResults, toolCalls[i])
        IN  [id |-> toolCalls[i].toolCallId,
             tool |-> toolCalls[i].toolName,
             parameters |-> toolCalls[i].args,
             result |-> IF k = 0 \/ toolResults[k].result = ""
                        THEN Undefined ELSE toolResults[k].result,
             state |-> IF k = 0 THEN "pending" ELSE "result"]]

\* Lines 156-163: the rows saveToolOutputs inserts.
outputs(messageId, calls) ==
    [i \in 1..Len(calls) |->
        [message_id |-> messageId, tool_name |-> calls[i].tool,
         tool_call_id |-> calls[i].id, parameters |-> calls[i].parameters,
         result |-> calls[i].result, state |-> calls[i].state]]

\* Lines 155 and 173-176: the body of saveToolOutputs runs inside try/catch,
\* and the catch block only logs.
SaveCatches == TRUE

\* Lines 144-177: whether saveToolOutputs lets a failed insert escape. An
\* insert resolving with an error is thrown at line 171, inside the try block.
saveToolOutputsThrows(toolInsert) == toolInsert # "ok" /\ ~SaveCatches

\* A plausible slip (the older route, src/unnamed/part_001): the body of
\* onStepFinish outside any try block.
StepCatchesNothing == FALSE

\* Lines 265 and 298-301: the body of onStepFinish runs inside try/catch, and
\* the catch block only logs.
StepCatches == TRUE

\* Lines 262-302: whether onStepFinish lets a persistence failure escape. An
\* insert into chat_messages resolving with an error ends the callback with a
\* plain return (279-282).
onStepFinishThrows(messageInsert, toolInsert) ==
    /\ ~StepCatches
    /\ \/ messageInsert = "throws"
       \/ messageInsert = "ok" /\ saveToolOutputsThrows(toolInsert)

\* Lines 170, 174, 280, 299: what a step with tool calls writes to the console.
stepLines(messageInsert, toolInsert) ==
    IF messageInsert = "error" THEN {"Error saving message:"}
    ELSE IF messageInsert = "throws"
    THEN IF StepCatches THEN {"Error in onStepFinish:"} ELSE {}
    ELSE IF toolInsert = "error"
    THEN {"Error saving tool outputs:"}
         \cup (IF SaveCatches THEN {"Failed to save tool outputs:"} ELSE {})
    ELSE IF toolInsert = "throws"
    THEN IF SaveCatches THEN {"Failed to save tool outputs:"} ELSE {}
    ELSE {}

\* A plausible slip: the guard on the step's tool calls dropped.
noToolCallsNever(step) == FALSE

\* Line 263: !toolCalls?.length
noToolCalls(step) == Len(step.toolCalls) = 0

\* A plausible slip: the returned insert error logged without the return.
stopsOnMessageErrorNever(messageInsert) == FALSE

\* Lines 279-282: if (messageError) { ...; return; }
stopsOnMessageError(messageInsert) == messageInsert = "error"

\* Lines 262-302 with saveToolOutputs (144-177): one step completed. The
\* callback does not look at threadId before it inserts. The row reaches
\* chat_messages when its insert succeeds; saveToolOutputs is called unless the
\* insert threw or returned an error. An exception escaping
\* the callback would error the stream the callback belongs to.
OnStepFinish ==
    /\ ModelStreamRuns
    /\ finishCalls = 0
    /\ stepsDone < Len(upstream.steps)
    /\ stepsDone' = stepsDone + 1
    /\ LET step == upstream.steps[stepsDone + 1].step
           messageInsert == upstream.steps[stepsDone + 1].messageInsert
           toolInsert == upstream.steps[stepsDone + 1].toolInsert
           messageId == stepsDone + 1
           row == [id |-> messageId, thread_id |-> body.id,
                   role |-> "assistant", content |-> step.text]
           raised == ~noToolCalls(step)
                     /\ onStepFinishThrows(messageInsert, toolInsert)
           saves == messageInsert # "throws"
                    /\ ~stopsOnMessageError(messageInsert)
       IN    /\ callbackRaised' = (callbackRaised \/ raised)
             /\ outboundState' = IF raised /\ outboundState = "open"
                                 THEN "errored" ELSE outboundState
             /\ IF noToolCalls(step)
                THEN UNCHANGED <<chat_messages, tool_outputs, insertAttempts,
                                 logged>>
                ELSE /\ logged' = logged \cup stepLines(messageInsert, toolInsert)
                     /\ chat_messages' = IF messageInsert = "ok"
                                         THEN Append(chat_messages, row)
                                         ELSE chat_messages
                     /\ insertAttempts' = insertAttempts
                                          + (IF saves THEN 2 ELSE 1)
                     /\ tool_outputs' =
                           IF saves /\ toolInsert = "ok"
                           THEN tool_outputs \o
                                outputs(messageId,
                                   toolCallsWithResults(step.toolCalls,
                                                        step.toolResults))
                           ELSE tool_outputs
    /\ UNCHANGED <<promptVars, pageVars, caughtBy, upstream,
                   thread, pc, session, body, response, thrown, modelCall,
                   aborted, streamFinished, streamError, outbound,
                   consumed, finishCalls, usageLogged>>

FinishReasons == {"stop", "error"}

\* logTokenUsage resolves, rejects, or throws before returning a promise.
LogOutcomes == {"resolves", "rejects", "throws"}

\* A plausible slip (the older route, src/unnamed/part_001): the body of
\* onFinish outside any try block.
FinishCatchesNothing == FALSE

\* Lines 307 and 331-334: the body of onFinish after the first assignment runs
\* inside try/catch, and the catch block only logs.
FinishCatches == TRUE

\* Line 309: finishReason === 'error'
recordsStreamError(finishReason) == finishReason = "error"

\* Lines 304-335: whether onFinish lets an exception escape. A rejection of
\* logTokenUsage is handled by .catch (327-329); a synchronous throw leaves
\* the await expression and reaches the catch block.
onFinishThrows(hasUsage, logOutcome) ==
    hasUsage /\ logOutcome = "throws" /\ ~FinishCatches

\* Lines 310, 328, 332: what onFinish writes to the console.
finishLines(finishReason, hasUsage, logOutcome) ==
    (IF recordsStreamError(finishReason)
     THEN {"Stream finished with error:"} ELSE {})
    \cup (IF hasUsage /\ logOutcome = "rejects"
          THEN {"Token logging failed:"} ELSE {})
    \cup (IF hasUsage /\ logOutcome = "throws" /\ FinishCatches
          THEN {"Error in onFinish:"} ELSE {})

\* Lines 304-335: the stream finished. logTokenUsage is called when usage is
\* present, whatever becomes of the call.
OnFinish ==
    /\ ModelStreamRuns
    /\ finishCalls = 0
    /\ stepsDone = Len(upstream.steps)
    /\ finishCalls' = 1
    /\ streamFinished' = TRUE
    /\ LET finishReason == upstream.finish.finishReason
           hasUsage == upstream.finish.hasUsage
           logOutcome == upstream.finish.logOutcome
           raised == onFinishThrows(hasUsage, logOutcome)
       IN    /\ streamError' = (streamError \/ recordsStreamError(finishReason))
             /\ usageLogged' = IF hasUsage THEN usageLogged + 1 ELSE usageLogged
             /\ logged' = logged \cup finishLines(finishReason, hasUsage,
                                                  logOutcome)
             /\ callbackRaised' = (callbackRaised \/ raised)
             /\ outboundState' = IF raised /\ outboundState = "open"
                                 THEN "errored" ELSE outboundState
    /\ UNCHANGED <<promptVars, pageVars, caughtBy, upstream,
                   thread, pc, session, body, response, thrown, modelCall,
                   aborted, outbound, consumed, stepsDone,
                   chat_messages, tool_outputs, insertAttempts>>

----------------------------------------------------------------------------
(* Specifications *)

\* The histories the requests of the handler carry.
RequestHistories ==
    { <<[role |-> "user", content |-> StringContent(<<"explain", "fractions">>)]>>,
      <<[role |-> "user", content |-> StringContent(<<"Math", "homework">>)],
        [role |-> "assistant", content |-> StringContent(<<"an", "Experiment">>)]>>,
      <<[role |-> "user", content |-> NoContent]>> }

Bodies ==
    [malformed : {FALSE},
     messages : {NotAnArray, MessageArray(<<>>)}
                \cup {MessageArray(h) : h \in RequestHistories},
     id : ThreadIds,
     language : {Undefined} \cup LanguageValues,
     teachingMode : BOOLEAN]
    \cup
    {[malformed |-> TRUE, messages |-> NotAnArray, id |-> Undefined,
      language |-> Undefined, teachingMode |-> FALSE]}

\* All sequences over S of length at most n.
SeqsUpTo(S, n) == UNION {[1..k -> S] : k \in 0..n}

\* A step with one tool call whose result arrived.
PictureStep ==
    [text |-> "Here is a picture.",
     toolCalls |-> <<[toolCallId |-> "call-1", toolName |-> "generateImage",
                      args |-> "a pie"]>>,
     toolResults |-> <<[toolCallId |-> "call-1",
                        result |-> "https://img/pie.png"]>>]

\* A completed step together with what the two inserts of its callback do:
\* any step with both inserts succeeding, or the picture step with one insert
\* failing (the second insert is only issued after the first succeeded).
StepEvents ==
    {[step |-> s, messageInsert |-> "ok", toolInsert |-> "ok"] : s \in Steps}
    \cup {[step |-> PictureStep, messageInsert |-> m, toolInsert |-> "ok"] :
             m \in InsertOutcomes \ {"ok"}}
    \cup {[step |-> PictureStep, messageInsert |-> "ok", toolInsert |-> t] :
             t \in InsertOutcomes \ {"ok"}}

\* The finish event together with what logTokenUsage does when it is called.
FinishEvents ==
    {[finishReason |-> r, hasUsage |-> FALSE, logOutcome |-> ""] :
        r \in FinishReasons}
    \cup {[finishReason |-> r, hasUsage |-> TRUE, logOutcome |-> o] :
             r \in FinishReasons, o \in LogOutcomes}

\* The stream every request meets unless it is one of the focus requests.
DefaultUpstream ==
    [chunks |-> <<[type |-> "text", text |-> "Fractions are"]>>,
     steps |-> <<[step |-> PictureStep, messageInsert |-> "ok",
                  toolInsert |-> "ok"]>>,
     finish |-> [finishReason |-> "stop", hasUsage |-> TRUE,
                 logOutcome |-> "resolves"],
     terminateThrows |-> FALSE]

\* The streams the focus requests meet: the default stream with its chunks,
\* or its steps, or its finish event and teardown replaced by any other.
Upstreams ==
    {[DefaultUpstream EXCEPT !.chunks = c] : c \in SeqsUpTo(Chunks, MaxEvents)}
    \cup {[DefaultUpstream EXCEPT !.steps = st] :
             st \in SeqsUpTo(StepEvents, MaxSteps)}
    \cup {[DefaultUpstream EXCEPT !.finish = f, !.terminateThrows = t] :
             f \in FinishEvents, t \in BOOLEAN}

\* The requests explored against every stream: a student's plain question,
\* with no thread id, an empty one, or the id of a thread the student owns.
FocusRequest(s, b) ==
    /\ ~s.throws /\ s.hasUser /\ ~s.hasError /\ s.role = "Student"
    /\ ~b.malformed
    /\ b.messages = MessageArray(
          <<[role |-> "user",
             content |-> StringContent(<<"explain", "fractions">>)]>>)
    /\ b.language = Undefined
    /\ ~b.teachingMode
    /\ b.id \in {Undefined, "", "thread-mine"}

Init ==
    /\ IdleSelector
    /\ IdleLesson
    /\ IdleStudent
    /\ pc = "getUser"
    /\ session \in Sessions
    /\ body \in Bodies
    /\ upstream \in IF FocusRequest(session, body)
                     THEN Upstreams ELSE {DefaultUpstream}
    /\ IdleRequest

Next ==
    \/ GetUser
    \/ ParseBody
    \/ VerifyThread
    \/ ValidateMessages
    \/ StreamText
    \/ ToDataStreamResponse
    \/ InnerCatch
    \/ OuterCatch
    \/ Transform
    \/ Flush
    \/ OnStepFinish
    \/ OnFinish

Spec == Init /\ [][Next]_vars

\* The handler's stream under the scheduling its runtime provides: the caller
\* reads the response body, so a pending chunk is transformed, a completed step
\* or finish event has its callback invoked, and flush() is called once the
\* response body has ended.
SpecLive ==
    /\ Init
    /\ [][Next]_vars
    /\ WF_vars(Transform)
    /\ WF_vars(OnStepFinish)
    /\ WF_vars(OnFinish)
    /\ WF_vars(Flush)

NextPrompt == DetectSubjectCall \/ GetSystemPromptCall

SpecPrompt == InitPrompt /\ [][NextPrompt]_vars

----------------------------------------------------------------------------
(* Properties of the request checks *)

\* The session lookup returned a user and no error.
Authenticated == ~session.throws /\ ~session.hasError /\ session.hasUser

\* The session lookup returned, with an error or without a user.
LookupFailed == ~session.throws /\ (session.hasError \/ ~session.hasUser)

\* The handler is past the thread check.
PastThreadCheck == pc \notin {"getUser", "parseBody", "verifyThread"}

\* No language-model stream was opened and nothing ran or was written for it.
NothingStreamed ==
    /\ ~modelCall.called
    /\ outboundState = "none"
    /\ outbound = <<>>
    /\ consumed = <<>>
    /\ stepsDone = 0
    /\ finishCalls = 0
    /\ chat_messages = <<>>
    /\ tool_outputs = <<>>
    /\ insertAttempts = 0
    /\ usageLogged = 0

\* C1: a request whose session lookup returns an error or no user is answered
\* with 401 and a non-empty error field, whatever its body holds, and streamText
\* is never invoked for it.
C1_UnauthorizedIs401 ==
    LookupFailed =>
        /\ ~modelCall.called
        /\ pc \in {"getUser", "returned"}
        /\ pc = "returned" => /\ response.status = 401
                              /\ response.error # ""
                              /\ ~response.stream

C1_Witness ==
    /\ pc = "returned"
    /\ session.hasError
    /\ session.message = ""
    /\ response.status = 401
    /\ response.error = "User not found"
    /\ body.messages.isArray
    /\ Len(body.messages.items) > 0

\* The body carries a thread identifier: an id that is neither absent nor empty.
SuppliesThreadId == body.id # Undefined /\ body.id # ""

\* C2: for an authenticated request that supplies a thread identifier, a failed
\* thread lookup (in particular a thread that does not exist) is answered with
\* 404 and a thread owned by another user with 403; the request gets past the
\* thread check only when the thread's owner is the caller.
C2_ThreadCheck ==
    (Authenticated /\ ~body.malformed /\ SuppliesThreadId /\ PastThreadCheck) =>
        /\ thread.fetched
        /\ body.id \notin DOMAIN chat_threads => thread.error
        /\ ~thread.error => thread.user_id = chat_threads[body.id]
        /\ thread.error => pc = "returned" /\ response.status = 404
        /\ (~thread.error /\ thread.user_id # session.id) =>
               pc = "returned" /\ response.status = 403
        /\ (pc # "returned" \/ response.status \notin {403, 404}) =>
               ~thread.error /\ thread.user_id = session.id

C2_Witness ==
    /\ pc = "returned"
    /\ Authenticated
    /\ body.id = "thread-other"
    /\ thread.fetched
    /\ ~thread.error
    /\ thread.user_id = OtherUserId
    /\ response.status = 403

\* The answer is one of the four the checks at the start of the handler return
\* (the failure boundaries set a code, the checks do not).
RejectedByChecks ==
    /\ response.status \in {400, 401, 403, 404}
    /\ response.code = ""
    /\ response.error \in {"User not found", "Auth session missing!",
                           "Thread not found", "Unauthorized thread access",
                           "Invalid messages array"}

\* C3: when the handler answers 401, 403, 404 or the safety check's 400, no
\* language-model stream has been opened, no step or finish callback has run and
\* no row was inserted into chat_messages or tool_outputs.
C3_RejectedNeverStreams ==
    RejectedByChecks => NothingStreamed

C3_Witness ==
    /\ pc = "returned"
    /\ RejectedByChecks
    /\ response.status = 403
    /\ body.messages.isArray
    /\ Len(body.messages.items) > 0
    /\ NothingStreamed

\* The request passed the thread check: no thread identifier, or a thread the
\* lookup found to be owned by the caller.
PassedThreadCheck ==
    \/ ~SuppliesThreadId
    \/ thread.fetched /\ ~thread.error /\ thread.user_id = session.id

\* C4 as stated: every authenticated request whose messages value is not an
\* array or is empty is answered with 400.
C4_InvalidMessagesIs400 ==
    (Authenticated /\ ~body.malformed /\ InvalidMessages(body.messages)
        /\ pc = "returned")
    => response.status = 400

\* C4 as amended: an authenticated request that passed the thread check and
\* whose messages value is not an array or is empty is answered with 400, and
\* only a non-empty array reaches the model call.
C4_InvalidMessagesIs400AfterThreadCheck ==
    /\ (Authenticated /\ ~body.malformed /\ PassedThreadCheck
            /\ (~body.messages.isArray \/ body.messages.items = <<>>)
            /\ pc = "returned")
       => /\ response.status = 400
          /\ response.error = "Invalid messages array"
    /\ modelCall.called =>
          /\ body.messages.isArray
          /\ Len(body.messages.items) > 0
          /\ Len(modelCall.messages) = Len(body.messages.items)

C4_Witness ==
    /\ pc = "returned"
    /\ Authenticated
    /\ body.id = "thread-mine"
    /\ body.messages = MessageArray(<<>>)
    /\ response.status = 400

----------------------------------------------------------------------------
(* Properties of the model call *)

\* C5: whenever the caller's role is Teacher the system prompt handed to the
\* model is the teacher-buddy prompt, whatever the language, the teaching-mode
\* flag and the history.
C5_TeacherGetsBuddyPrompt ==
    (modelCall.called /\ session.role = "Teacher") =>
        modelCall.system = TEACHER_BUDDY_PROMPT

C7_SamplingByMode ==
    modelCall.called =>
        /\ body.teachingMode =>
               modelCall.temperature = 3 /\ modelCall.maxTokens = 1500
        /\ ~body.teachingMode =>
               modelCall.temperature = 5 /\ modelCall.maxTokens = 500
        /\ temperature(TRUE) < temperature(FALSE)
        /\ maxTokens(TRUE) > maxTokens(FALSE)

C7_Witness ==
    /\ modelCall.called
    /\ body.teachingMode
    /\ body.id = "thread-mine"
    /\ body.language = "hindi"
    /\ modelCall.temperature = 3
    /\ modelCall.maxTokens = 1500

----------------------------------------------------------------------------
(* Properties of the prompt selector *)

\* The lower-cased text holds one of the two keywords.
Mentions(content, kw1, kw2) ==
    \E i \in 1..Len(content.words) :
        \/ WordIncludes(LowerWord(content.words[i]), kw1)
        \/ WordIncludes(LowerWord(content.words[i]), kw2)

\* C8: detectSubject reads the most recent user message only, ignores case and
\* answers by first match in the order math/calculation, science/experiment,
\* english/writing, generic; a history without a user message is generic.
C8_DetectSubject ==
    subject # NotCalled =>
        LET m == args.messages
            users == {i \in 1..Len(m) : m[i].role = "user"}
        IN  /\ users = {} => subject = "generic"
            /\ \A i \in users :
                 ((\A j \in users : j <= i) /\ m[i].content.isString) =>
                    LET c == m[i].content
                        math == Mentions(c, "math", "calculation")
                        science == Mentions(c, "science", "experiment")
                        english == Mentions(c, "english", "writing")
                    IN  /\ math => subject = "math"
                        /\ (~math /\ science) => subject = "science"
                        /\ (~math /\ ~science /\ english) => subject = "english"
                        /\ (~math /\ ~science /\ ~english) => subject = "generic"

C8_Witness ==
    /\ Len(args.messages) = 2
    /\ args.messages[1] =
          [role |-> "user", content |-> StringContent(<<"an", "Experiment">>)]
    /\ args.messages[2] =
          [role |-> "user", content |-> StringContent(<<"science", "and", "math">>)]
    /\ subject = "math"

\* C9: the selector never fails and always returns a non-empty string.
C9_SelectorNeverFails ==
    prompt.called => ~prompt.threw /\ Len(prompt.parts) > 0

----------------------------------------------------------------------------
(* Properties of the transport adapter *)

\* C10: an error event never ends or errors the outbound stream; it is not
\* forwarded, one apology text event takes its place, and the events around it
\* are delivered unchanged.
C10_ErrorEventReplaced ==
    /\ outboundState # "errored"
    /\ outboundState = "closed" => finishCalls > 0
    /\ Len(outbound) = Len(consumed)
    /\ \A i \in 1..Len(consumed) :
         /\ i <= Len(outbound)
         /\ outbound[i].type # "error"
         /\ consumed[i].type = "error" => outbound[i] = Apology
         /\ consumed[i].type # "error" => outbound[i] = consumed[i]

C10_Witness ==
    /\ Len(consumed) = 2
    /\ consumed[1].type = "error"
    /\ consumed[2].type = "tool-call"
    /\ outbound = <<Apology, consumed[2]>>
    /\ outboundState = "closed"

----------------------------------------------------------------------------
(* Properties of the step and finish callbacks *)

\* The i-th step had tool calls and one of its two inserts failed.
PersistenceFailedAt(i) ==
    /\ Len(upstream.steps[i].step.toolCalls) > 0
    /\ \/ upstream.steps[i].messageInsert # "ok"
       \/ upstream.steps[i].toolInsert # "ok"

\* The step callback has met a failed insert.
PersistenceFailed == \E i \in 1..stepsDone : PersistenceFailedAt(i)

\* The answer the caller was given before any callback ran.
AnswerGiven ==
    IF caughtBy = "inner" THEN streamErrorResponse(thrown, FALSE)
    ELSE [NoResponse EXCEPT !.status = 200, !.stream = TRUE]

\* C11: a failed insert into chat_messages or tool_outputs (an error returned
\* or an exception) never leaves the step callback: nothing is raised into the
\* stream, the outbound stream is not errored, the caller's response is the one
\* already given, and the next step or the finish event is still processed.
C11_PersistenceFailureSwallowed ==
    PersistenceFailed =>
        /\ ~callbackRaised
        /\ outboundState # "errored"
        /\ response = AnswerGiven
        /\ (finishCalls = 0 /\ stepsDone < Len(upstream.steps))
              => ENABLED OnStepFinish
        /\ (finishCalls = 0 /\ stepsDone = Len(upstream.steps))
              => ENABLED OnFinish

C11_Witness ==
    /\ stepsDone = 2
    /\ PersistenceFailedAt(1)
    /\ upstream.steps[1].messageInsert = "throws"
    /\ Len(chat_messages) = 1
    /\ chat_messages[1].id = 2
    /\ finishCalls = 1
    /\ outboundState = "closed"
    /\ response.status = 200

\* C12: an authenticated request that supplies no thread id attempts no
\* persistence at all: no insert into chat_messages and none into tool_outputs.
C12_NoThreadNoPersistence ==
    (Authenticated /\ ~SuppliesThreadId) =>
        /\ insertAttempts = 0
        /\ chat_messages = <<>>
        /\ tool_outputs = <<>>

\* C19: the finish callback never raises, whatever the finish reason, with
\* or without usage, and whether the usage accounting resolves, rejects or
\* throws; it records a stream error exactly when the finish reason is error,
\* and calls the usage accounting exactly when usage is present.
C19_FinishCallback ==
    finishCalls = 1 =>
        /\ ~callbackRaised
        /\ outboundState # "errored"
        /\ streamFinished
        /\ streamError <=> upstream.finish.finishReason = "error"
        /\ usageLogged = (IF upstream.finish.hasUsage THEN 1 ELSE 0)

C19_Witness ==
    /\ finishCalls = 1
    /\ upstream.finish.finishReason = "error"
    /\ upstream.finish.hasUsage
    /\ upstream.finish.logOutcome = "throws"
    /\ streamError
    /\ usageLogged = 1
    /\ "Error in onFinish:" \in logged

\* The first result of the step carrying the call's id (0: none).
ResultOf(step, call) == FindResult(step.toolResults, call)

\* C20: every persisted ToolInvocation corresponds to a tool call of its step
\* (same call id, tool name and parameters); it is stored in state `result`
\* with that call's result value when the step carries a result with the same
\* call id, and `pending` without a result otherwise.
C20_RowsMatchCalls ==
    \A n \in 1..Len(tool_outputs) :
        LET row == tool_outputs[n]
            step == upstream.steps[row.message_id].step
        IN  \E i \in 1..Len(step.toolCalls) :
               LET call == step.toolCalls[i]
                   k == ResultOf(step, call)
               IN  /\ row.tool_call_id = call.toolCallId
                   /\ row.tool_name = call.toolName
                   /\ row.parameters = call.args
                   /\ k # 0 => /\ row.state = "result"
                               /\ row.result = step.toolResults[k].result
                   /\ k = 0 => /\ row.state = "pending"
                               /\ row.result = Undefined

\* The steps completed so far that produced at least one tool call.
StepsWithToolCalls ==
    {i \in 1..stepsDone : Len(upstream.steps[i].step.toolCalls) > 0}

\* C21: every persisted assistant message belongs to one completed step that
\* produced a tool call, carries that step's text, and has an identifier no
\* other persisted message has; a step without tool calls persists nothing, so
\* the messages persisted never outnumber the completed steps with tool calls.
C21_MessagePerStep ==
    /\ Len(chat_messages) <= Cardinality(StepsWithToolCalls)
    /\ \A n \in 1..Len(chat_messages) :
          /\ chat_messages[n].id \in StepsWithToolCalls
          /\ chat_messages[n].role = "assistant"
          /\ chat_messages[n].content
                = upstream.steps[chat_messages[n].id].step.text
          /\ \A m \in 1..Len(chat_messages) :
                chat_messages[m].id = chat_messages[n].id => m = n

C21_Witness ==
    /\ stepsDone = 2
    /\ Len(upstream.steps[1].step.toolCalls) = 0
    /\ Len(chat_messages) = 1
    /\ chat_messages[1].id = 2
    /\ chat_messages[1].content = upstream.steps[2].step.text

\* C23: every tool_outputs row references a message that was inserted into
\* chat_messages earlier in the same step: the second insert is only issued
\* after the first succeeded.
C23_ToolOutputsAfterMessage ==
    \A n \in 1..Len(tool_outputs) :
        /\ tool_outputs[n].message_id \in 1..stepsDone
        /\ upstream.steps[tool_outputs[n].message_id].messageInsert = "ok"
        /\ \E m \in 1..Len(chat_messages) :
              chat_messages[m].id = tool_outputs[n].message_id

C23_Witness ==
    /\ stepsDone = 2
    /\ upstream.steps[1].messageInsert = "error"
    /\ Len(chat_messages) = 1
    /\ Len(tool_outputs) = 1
    /\ tool_outputs[1].message_id = 2

\* C25: every persisted assistant message is tagged with the thread id of the
\* request, and a thread id that is present was verified earlier in the
\* request to belong to the caller: no message is written into a thread of
\* another user.
C25_MessagesInOwnThread ==
    \A n \in 1..Len(chat_messages) :
        /\ chat_messages[n].thread_id = body.id
        /\ Truthy(body.id) =>
              /\ thread.fetched /\ ~thread.error
              /\ thread.user_id = session.id
              /\ body.id \in DOMAIN chat_threads
              /\ chat_threads[body.id] = session.id

C25_Witness ==
    /\ Len(chat_messages) = 1
    /\ chat_messages[1].thread_id = "thread-mine"
    /\ thread.user_id = CallerId

----------------------------------------------------------------------------
(* Properties of the two failure boundaries *)

\* The marker message carries no fragment that parses: no '{', or broken JSON.
UnparsableFragment(message) ==
    ~(hasJsonStart(message) /\ jsonParses(message))

\* C13: every thrown error whose message contains the finish-error marker but
\* whose trailing fragment cannot be parsed (broken JSON after the first '{',
\* or no '{' at all) is answered 500 with code STREAM_FINISH_ERROR, recoverable
\* true and the raw error message.
C13_UnparsableFinishError ==
    (caughtBy = "inner" /\ isStreamFinishError(thrown)
        /\ UnparsableFragment(thrown.message)) =>
        /\ response.status = 500
        /\ response.code = "STREAM_FINISH_ERROR"
        /\ response.recoverable = "true"
        /\ response.message = thrown.message

\* C14: whatever value is thrown inside POST, of whatever type, the handler
\* returns a response with an HTTP error status and a JSON body carrying
\* `error`; its promise never rejects.
C14_EveryThrowAnswered ==
    /\ pc # "rejected"
    /\ caughtBy # "none" =>
          /\ pc = "returned"
          /\ response.status >= 400
          /\ response.error # ""

\* The thrown value reaches the API-client branch of the stream failure
\* boundary: it is an API-client error and no earlier branch answered.
ClassifiedAsApiError ==
    /\ caughtBy = "inner"
    /\ isAPICallError(thrown)
    /\ ~(isStreamFinishError(thrown) /\ hasJsonStart(thrown.message))
    /\ ~isTypeError(thrown)

\* C15 as stated: at the stream failure boundary an API-client error is
\* answered with its own status code (500 when it has none) and a body that
\* propagates its retryability flag, its URL and its response body.
C15_ApiErrorPropagatesUrlAndBody ==
    ClassifiedAsApiError =>
        /\ response.status = apiErrorStatus(thrown)
        /\ response.recoverable = JsonBool(thrown.isRetryable)
        /\ response.url = thrown.url
        /\ response.responseBody = thrown.responseBody

\* C15: at the stream failure boundary an API-client error is answered with
\* its own status code (500 when it has none) and a body that carries the
\* status code and the retryability flag (as `recoverable`) and neither the
\* URL nor the response body; the outer failure boundary answers with the
\* same status and a body carrying the status code, the retryability flag,
\* the URL and the response body.
C15_ApiErrorByBoundary ==
    /\ ClassifiedAsApiError =>
          /\ response.status = (IF thrown.statusCode # 0
                                THEN thrown.statusCode ELSE 500)
          /\ response.code = "STREAM_AI_ERROR"
          /\ response.statusCode = thrown.statusCode
          /\ response.recoverable = JsonBool(thrown.isRetryable)
          /\ response.url = ""
          /\ response.responseBody = ""
    /\ (caughtBy = "outer" /\ isAPICallError(thrown)) =>
          /\ response.status = (IF thrown.statusCode # 0
                                THEN thrown.statusCode ELSE 500)
          /\ response.code = "AI_API_ERROR"
          /\ response.statusCode = thrown.statusCode
          /\ response.isRetryable = JsonBool(thrown.isRetryable)
          /\ response.url = thrown.url
          /\ response.responseBody = thrown.responseBody

C15_Witness ==
    /\ ClassifiedAsApiError
    /\ thrown.statusCode = 429
    /\ thrown.url # ""
    /\ thrown.responseBody # ""
    /\ response.status = 429
    /\ response.recoverable = "true"

\* C16: on every failure handled at either boundary the cancellation handle
\* is signaled before the error response is returned, and the signal stops the
\* model stream: no step or finish callback runs and no stream event is
\* delivered once the handle is signaled.
C16_AbortStopsUpstream ==
    /\ caughtBy # "none" => aborted
    /\ aborted =>
          /\ stepsDone = 0
          /\ finishCalls = 0
          /\ consumed = <<>>

\* The code of the first class of the stream failure boundary the thrown
\* value e matches, given whether a finish error had been recorded.
FirstMatchCode(e, recorded) ==
    IF isStreamFinishError(e) THEN "STREAM_FINISH_ERROR"
    ELSE IF isTypeError(e) THEN "STREAM_TYPE_ERROR"
    ELSE IF isAPICallError(e) THEN "STREAM_AI_ERROR"
    ELSE IF recorded THEN "STREAM_REPORTED_ERROR"
    ELSE "STREAM_ERROR"

\* C18: the stream failure boundary classifies first-match, in the order
\* finish-error marker, type error, API-client error, recorded finish error,
\* fallback: the answer carries the code of the first class the thrown value
\* matches, never the code of a later one, and a type error is answered 500
\* with recoverable false.
C18_FirstMatchClassification ==
    [][InnerCatch =>
          /\ response'.code = FirstMatchCode(thrown, streamError)
          /\ response'.code = "STREAM_TYPE_ERROR" =>
                (response'.status = 500 /\ response'.recoverable = "false")]_vars

\* C24: the adapter is one-for-one and order-preserving: the i-th event it
\* was handed yields exactly the i-th outbound event, the event itself or, for
\* an error event, the apology; nothing is duplicated, dropped or reordered.
C24_OneForOne ==
    /\ Len(outbound) = Len(consumed)
    /\ Len(consumed) <= Len(upstream.chunks)
    /\ \A i \in 1..Len(consumed) :
          /\ consumed[i] = upstream.chunks[i]
          /\ i <= Len(outbound)
          /\ outbound[i] = IF upstream.chunks[i].type = "error"
                           THEN Apology ELSE upstream.chunks[i]

C24_Witness ==
    /\ Len(upstream.chunks) = 2
    /\ upstream.chunks[1].type = "tool-call"
    /\ upstream.chunks[2].type = "error"
    /\ outbound = <<upstream.chunks[1], Apology>>

\* The users other than the caller who may own the referenced thread.
OtherOwners == {OtherUserId, "user-3"}

\* C26: the 403 answer discloses nothing about the thread's owner: it is the
\* same whichever other user owns the referenced thread.
C26_ForbiddenHidesOwner ==
    response.status = 403 =>
        \A owner \in OtherOwners :
            response = forbiddenResponse(owner, session.id)

----------------------------------------------------------------------------
(* Termination of the outbound stream *)

\* C17: once the model stream has ended, the outbound stream is eventually
\* terminated cleanly: it closes, it is never errored by the adapter, and an
\* exception raised by the teardown is not re-raised.
C17_OutboundTerminates ==
    /\ [](outboundState # "errored" /\ ~callbackRaised)
    /\ (response.stream /\ finishCalls > 0) ~> (outboundState = "closed")

C17_Witness ==
    /\ upstream.terminateThrows
    /\ finishCalls = 1
    /\ outboundState = "closed"
    /\ "Error terminating controller:" \in logged
    /\ ~callbackRaised

-----------------------------------------------------------------------------
(* The lesson content generator page: generateText, generateContent, the
   Create Lesson button, the Enter key on the topic input, and the history
   pager of the newer version of the page. *)

\* Runs of generateContent one page instance may start.
MaxRuns == 2

\* Requests one generateText chain may issue before the model stops following it.
MaxRequests == 5

\* Lessons the history endpoint may return.
MaxLessons == 6

\* generateText's default for its retries parameter.
DefaultRetries == 3

lessonsPerPage == 5

Pages == {"page.tsx", "part_000"}

\* What one request to /api/generate-lesson-content can come to: a body with
\* title and result, a non-OK status, fetch or json() throwing, or a body
\* lacking one of the two fields.
FetchOutcomes == {"valid", "notOk", "fetchThrows", "noTitle", "noResult"}

nextRetriesSame(retries) == retries

\* The counter handed to the recursive call.
nextRetries(retries) == retries - 1

\* One generateText call, once its request has come back: the body is
\* returned, or the call is repeated with a smaller counter, or it throws.
\* The recursive call is returned without await, so what it throws is not
\* caught by the caller's catch block.
generateTextStep(outcome, retries) ==
    IF outcome = "valid" THEN "returns"
    ELSE IF retries > 0 THEN "retries"
    ELSE "throws"

NewRun == [phase |-> "text", retries |-> DefaultRetries, requests |-> 1,
           result |-> "pending"]

InFlight == {i \in 1..Len(runs) : runs[i].phase # "finished"}

\* generateContent up to its first await: the flags are set, the display is
\* cleared, and generateText has issued its first request.
generateContent ==
    /\ page \in Pages
    /\ Len(runs) < MaxRuns
    /\ isLoading' = TRUE
    /\ isImageLoading' = (IF page = "part_000" THEN TRUE ELSE isImageLoading)
    /\ textContent' = 0
    /\ runs' = Append(runs, NewRun)
    /\ UNCHANGED <<page, formFilled, history, currentPage, historyFetches>>

createDisabled == ~formFilled \/ isLoading

\* A click on the Create Lesson button.
ClickCreate ==
    /\ ~createDisabled
    /\ generateContent
    /\ UNCHANGED <<promptVars, requestVars, studentVars>>

\* The Enter key in the topic input, which is never disabled.
handleKeyPressed ==
    /\ generateContent
    /\ UNCHANGED <<promptVars, requestVars, studentVars>>

\* A request of run i comes back. When generateText settles, the rest of
\* generateContent runs with it: on the newer page to its end, on the older
\* page up to the await of generateImage.
TextResponse ==
    \E i \in 1..Len(runs), outcome \in FetchOutcomes :
        LET run == runs[i]
            step == generateTextStep(outcome, run.retries)
        IN
        /\ run.phase = "text"
        /\ CASE step = "retries" ->
                    /\ run.requests < MaxRequests
                    /\ runs' = [runs EXCEPT ![i].retries = nextRetries(run.retries),
                                            ![i].requests = run.requests + 1]
                    /\ UNCHANGED <<isLoading, isImageLoading, textContent,
                                   historyFetches>>
             [] step = "returns" /\ page = "page.tsx" ->
                    /\ runs' = [runs EXCEPT ![i].phase = "image",
                                            ![i].result = "returned"]
                    /\ textContent' = i
                    /\ UNCHANGED <<isLoading, isImageLoading, historyFetches>>
             [] step = "returns" /\ page = "part_000" ->
                    /\ runs' = [runs EXCEPT ![i].phase = "finished",
                                            ![i].result = "returned"]
                    /\ textContent' = i
                    /\ isLoading' = FALSE
                    /\ isImageLoading' = FALSE
                    /\ historyFetches' = historyFetches + 1
             [] step = "throws" ->
                    /\ runs' = [runs EXCEPT ![i].phase = "finished",
                                            ![i].result = "threw"]
                    /\ isLoading' = FALSE
                    /\ isImageLoading' =
                           (IF page = "part_000" THEN FALSE ELSE isImageLoading)
                    /\ UNCHANGED <<textContent, historyFetches>>
        /\ UNCHANGED <<page, formFilled, history, currentPage>>
        /\ UNCHANGED <<promptVars, requestVars, studentVars>>

\* The older page: generateImage settles, with a URL or by throwing, and the
\* finally block clears isLoading.
ImageResponse ==
    \E i \in 1..Len(runs) :
        /\ runs[i].phase = "image"
        /\ runs' = [runs EXCEPT ![i].phase = "finished"]
        /\ isLoading' = FALSE
        /\ UNCHANGED <<page, formFilled, isImageLoading, textContent, history,
                       currentPage, historyFetches>>
        /\ UNCHANGED <<promptVars, requestVars, studentVars>>

\* A fetchHistory call settles: the history becomes the list the endpoint
\* returned, or the call fails and is logged.
fetchHistory ==
    /\ historyFetches > 0
    /\ historyFetches' = historyFetches - 1
    /\ \E lessons \in 0..MaxLessons, ok \in BOOLEAN :
           history' = (IF ok THEN lessons ELSE history)
    /\ UNCHANGED <<page, formFilled, isLoading, isImageLoading, textContent, runs,
                   currentPage>>
    /\ UNCHANGED <<promptVars, requestVars, studentVars>>

\* Number of lessons of the history shown on the current page.
displayedLessons ==
    LET from == (currentPage - 1) * lessonsPerPage
        to == currentPage * lessonsPerPage
        upTo == IF to < history THEN to ELSE history
    IN IF from < upTo THEN upTo - from ELSE 0

handlePrevPage ==
    /\ page = "part_000"
    /\ currentPage' = (IF currentPage > 1 THEN currentPage - 1 ELSE currentPage)
    /\ UNCHANGED <<page, formFilled, isLoading, isImageLoading, textContent, runs,
                   history, historyFetches>>
    /\ UNCHANGED <<promptVars, requestVars, studentVars>>

handleNextPage ==
    /\ page = "part_000"
    /\ currentPage' = (IF currentPage * lessonsPerPage < history
                       THEN currentPage + 1 ELSE currentPage)
    /\ UNCHANGED <<page, formFilled, isLoading, isImageLoading, textContent, runs,
                   history, historyFetches>>
    /\ UNCHANGED <<promptVars, requestVars, studentVars>>

\* The page as mounted: nothing loading, nothing displayed, an empty history
\* on page 1; the newer page has called fetchHistory from its mount effect.
InitLesson ==
    /\ IdleRoute
    /\ IdleStudent
    /\ page \in Pages
    /\ formFilled \in BOOLEAN
    /\ isLoading = FALSE
    /\ isImageLoading = FALSE
    /\ textContent = 0
    /\ runs = <<>>
    /\ history = 0
    /\ currentPage = 1
    /\ historyFetches = (IF page = "part_000" THEN 1 ELSE 0)

NextLesson ==
    \/ ClickCreate
    \/ handleKeyPressed
    \/ TextResponse
    \/ ImageResponse
    \/ fetchHistory
    \/ handlePrevPage
    \/ handleNextPage

SpecLesson == InitLesson /\ [][NextLesson]_vars

-----------------------------------------------------------------------------
(* Properties of the lesson content generator page *)

\* C22: a generateText chain started with retries = 3 issues at most 4
\* requests whatever the outcomes are: every request after the first has
\* lowered the counter by one, the counter never goes below 0, and the chain
\* throws only with the counter at 0, after the fourth request.
C22_BoundedRetries ==
    \A i \in 1..Len(runs) :
        LET run == runs[i] IN
        /\ run.requests <= DefaultRetries + 1
        /\ run.retries \in 0..DefaultRetries
        /\ run.requests + run.retries = DefaultRetries + 1
        /\ run.result = "threw" =>
               run.retries = 0 /\ run.requests = DefaultRetries + 1
        /\ run.result = "pending" <=> run.phase = "text"

C22_Witness ==
    /\ \E i \in 1..Len(runs) :
           runs[i].result = "threw" /\ runs[i].requests = DefaultRetries + 1
    /\ \E i \in 1..Len(runs) :
           runs[i].result = "returned" /\ runs[i].requests > 1

\* C27: at most one generateContent run is in flight at any time, and the
\* text and title displayed come from the run started last.
C27_OneRunInFlight ==
    /\ Cardinality(InFlight) <= 1
    /\ textContent # 0 => textContent = Len(runs)

\* C28: isLoading is true from the start of a run until the run has finished,
\* and isLoading and isImageLoading are false once it has.
C28_LoadingWhileRunning ==
    /\ InFlight # {} => isLoading
    /\ InFlight = {} => ~isLoading /\ ~isImageLoading

\* C29: currentPage is at least 1 and, whenever the history is non-empty, the
\* current page shows at least one lesson.
C29_PageShowsLessons ==
    /\ currentPage >= 1
    /\ history > 0 => displayedLessons >= 1

-----------------------------------------------------------------------------
(* The student details page: loadData and what the page renders *)

\* The awaits of loadData, in order.
LoadSteps == <<"student", "schoolStudent", "chatThreads", "userEmail",
               "assessments", "assigned", "studyPlans", "lessonContents",
               "lessonPlans">>

\* What an await of loadData can come to: rows, an empty list, or a failure
\* (a non-OK response, an error from the query, or an exception).
LoadOutcomes == {"rows", "empty", "error"}

\* The section whose data the query fills, or "none" for a lookup.
sectionOf(step) ==
    CASE step = "chatThreads" -> "chatThreads"
      [] step = "assessments" -> "assessments"
      [] step = "studyPlans" -> "studyPlans"
      [] step = "lessonContents" -> "lessonContents"
      [] step = "lessonPlans" -> "lessonPlans"
      [] OTHER -> "none"

\* The await after the given one, or "done" after the last.
stepAfter(step) ==
    LET i == CHOOSE k \in 1..Len(LoadSteps) : LoadSteps[k] = step
    IN IF i < Len(LoadSteps) THEN LoadSteps[i + 1] ELSE "done"

\* The loading flags set to false once the query of the step has succeeded.
clearedAfter(step) ==
    CASE step = "assigned" -> {"assessments"}
      [] step = "studyPlans" -> {"studyPlans"}
      [] step = "lessonContents" -> {"lessonContents"}
      [] step = "lessonPlans" -> {"lessonPlans"}
      [] OTHER -> {}

\* The loading flags set to true before the query is made.
raisedBefore(step) ==
    CASE step = "schoolStudent" -> {"chatThreads"}
      [] step = "userEmail" -> {"assessments"}
      [] step = "studyPlans" -> {"studyPlans"}
      [] step = "lessonContents" -> {"lessonContents"}
      [] OTHER -> {}

\* The sections marked as failed by the catch block of the section queries.
markedFailed(step) == Sections

\* loadData is called from the mount effect.
Mount ==
    /\ loadPc = "unmounted"
    /\ loadPc' = "student"
    /\ loading' = TRUE
    /\ UNCHANGED <<loadError, sectionLoading, sectionError, student, failed>>
    /\ UNCHANGED <<promptVars, requestVars, lessonVars>>

\* The fetch of the student record settles.
LoadStudent ==
    /\ loadPc = "student"
    /\ \E outcome \in {"rows", "error"} :
        IF outcome = "error"
        THEN /\ loadError' = TRUE
             /\ loading' = FALSE
             /\ loadPc' = "done"
             /\ failed' = "student"
             /\ UNCHANGED <<sectionLoading, student>>
        ELSE /\ student' = [student EXCEPT !.set = TRUE]
             /\ sectionLoading' = [s \in Sections |->
                    IF s \in raisedBefore("schoolStudent") THEN TRUE
                    ELSE sectionLoading[s]]
             /\ loadPc' = "schoolStudent"
             /\ UNCHANGED <<loadError, loading, failed>>
    /\ UNCHANGED sectionError
    /\ UNCHANGED <<promptVars, requestVars, lessonVars>>

\* One of the queries of the inner try block settles. A failure of any of
\* them but the assigned_assessments query ends the block through its catch
\* and finally; an error of that query is ignored.
LoadSection ==
    /\ loadPc \notin {"unmounted", "student", "done"}
    /\ \E outcome \in LoadOutcomes :
        LET step == loadPc
            next == stepAfter(step)
            throws == outcome = "error" /\ step # "assigned"
        IN
        IF throws
        THEN /\ sectionError' = [s \in Sections |->
                    IF s \in markedFailed(step) THEN TRUE ELSE sectionError[s]]
             /\ sectionLoading' = [s \in Sections |-> FALSE]
             /\ loading' = FALSE
             /\ loadPc' = "done"
             /\ failed' = step
             /\ UNCHANGED student
        ELSE /\ student' =
                    IF sectionOf(step) # "none"
                    THEN [student EXCEPT !.sections[sectionOf(step)] = outcome]
                    ELSE IF step = "assigned"
                    THEN [student EXCEPT !.assigned = (outcome = "rows")]
                    ELSE student
             /\ sectionLoading' = [s \in Sections |->
                    IF next = "done" THEN FALSE
                    ELSE IF s \in raisedBefore(next) THEN TRUE
                    ELSE IF s \in clearedAfter(step) THEN FALSE
                    ELSE sectionLoading[s]]
             /\ loading' = (IF next = "done" THEN FALSE ELSE loading)
             /\ loadPc' = next
             /\ UNCHANGED <<sectionError, failed>>
    /\ UNCHANGED loadError
    /\ UNCHANGED <<promptVars, requestVars, lessonVars>>

\* What the page renders: the loading page, the error page, or the details.
pageView ==
    IF loading THEN "loading"
    ELSE IF loadError \/ ~student.set THEN "error"
    ELSE "details"

\* What the card of a section renders.
sectionView(s) ==
    IF sectionLoading[s] THEN "loading"
    ELSE IF sectionError[s] THEN "error"
    ELSE IF student.sections[s] = "rows" THEN "table"
    ELSE "none"

InitStudent ==
    /\ IdleRoute
    /\ IdleLesson
    /\ IdleStudent

NextStudent ==
    \/ Mount
    \/ LoadStudent
    \/ LoadSection

SpecStudent == InitStudent /\ [][NextStudent]_vars

\* The fetches a section depends on: its own query and the lookups whose
\* result the query needs.
OwnFetches(s) ==
    {"schoolStudent"}
    \cup (IF s = "chatThreads" THEN {"chatThreads"} ELSE {"userEmail"})
    \cup {step \in {"assessments", "studyPlans", "lessonContents", "lessonPlans"} :
              sectionOf(step) = s}

\* C30: once loadData has finished, a section shows an error only if one of
\* its own fetches failed, all five section loading flags are false, and the
\* chat threads card shows the threads fetched even when the study plans
\* query failed.
C30_SectionErrorsAreOwn ==
    loadPc = "done" =>
        /\ \A s \in Sections : sectionError[s] => failed \in OwnFetches(s)
        /\ \A s \in Sections : ~sectionLoading[s]
        /\ failed = "studyPlans" /\ student.sections["chatThreads"] = "rows" =>
               sectionView("chatThreads") = "table"

====
